---- MODULE Spec2Model ----
(***************************************************************************)
(* StudentAnalysisSystem: the two utility scripts.                         *)
(*                                                                         *)
(*   extract_files.py  (Extractor)  re.findall over a markdown document,   *)
(*                     one os.makedirs + open(..., 'w') + write per match  *)
(*   test.py           (Inspector)  csv.DictReader over one CSV file,      *)
(*                     five preview lines and a row count                  *)
(*                                                                         *)
(* Text is a sequence of one-character strings, so that the pattern of     *)
(* extract_files.py:10 is matched character by character, as re does.      *)
(***************************************************************************)
EXTENDS Naturals, Sequences, FiniteSets, TLC

VARIABLES
    prog,        \* which script this process runs: "extract" or "inspect"
    pc,          \* position in the script
    run,         \* 1 for the first invocation of the extractor, 2 for the second
    handles,     \* the file handles currently open
    log,         \* the lines printed to standard output, in order
    err,         \* "none", or the name of the unhandled exception
    \* ---- extractor ----
    doc,         \* how remaining_files.txt was composed: a sequence of pieces
    inputState,  \* "ok", "missing" or "undecodable": the state of remaining_files.txt
    fs,          \* the file system: resolved path -> [kind, data]
    fs0,         \* the file system before the first run
    fs1,         \* the file system, output and outcome of the first run
    content,     \* extract_swift_files: content
    matches,     \* extract_swift_files: matches
    idx,         \* position of the for loop in matches
    written,     \* the resolved paths this run has opened for writing
    \* ---- inspector ----
    csvState,    \* "ok" or "missing": the state of the CSV file
    fieldnames,  \* the CSV file's first record
    records,     \* the CSV file's following records, each a sequence of fields
    line,        \* how many of records the reader has consumed
    row,         \* test.py: row
    count        \* test.py: count

vars == <<prog, pc, run, handles, log, err, doc, inputState, fs, fs0, fs1,
          content, matches, idx, written, csvState, fieldnames, records,
          line, row, count>>

extractorVars == <<doc, inputState, fs, fs0, fs1, content, matches, idx, written>>
inspectorVars == <<csvState, fieldnames, records, line, row, count>>

(***************************************************************************)
(* Bounds of the model.                                                    *)
(***************************************************************************)
\* the longest document, in pieces
MaxPieces == 2
\* the longest CSV file, in records after the header
MaxRecords == 10

(***************************************************************************)
(* Text helpers: what str and re do, on sequences of characters.           *)
(***************************************************************************)
RECURSIVE Flatten(_)
Flatten(ss) == IF ss = <<>> THEN <<>> ELSE Head(ss) \o Flatten(Tail(ss))

\* s[i:] starts with lit (i is 1-based)
LitAt(s, i, lit) ==
    /\ i >= 1
    /\ i + Len(lit) - 1 <= Len(s)
    /\ \A k \in 1..Len(lit) : s[i + k - 1] = lit[k]

\* s[a:b] of Python on 1-based inclusive bounds: the characters a..b
Slice(s, a, b) == IF a > b THEN <<>> ELSE SubSeq(s, a, b)

Min(S) == CHOOSE x \in S : \A y \in S : x <= y
Max(S) == CHOOSE x \in S : \A y \in S : x >= y

\* the backtick, U+0060, which a TLA+ string cannot hold
BT == "BACKTICK"

\* the characters str.strip() removes: those for which str.isspace() holds.
\* A character that is not printable ASCII and has no escape in a TLA+
\* string stands by the name of its code point
Whitespace ==
    {" ", "\t", "\n", "\r", "\f", "U+000B", "U+001C", "U+001D", "U+001E",
     "U+001F", "U+0085", "U+00A0",
     "U+1680", "U+2000", "U+2001", "U+2002", "U+2003", "U+2004", "U+2005",
     "U+2006", "U+2007", "U+2008", "U+2009", "U+200A", "U+2028", "U+2029",
     "U+202F", "U+205F", "U+3000"}

\* str.strip(): without the leading and the trailing whitespace
Strip(s) ==
    LET keep == {i \in 1..Len(s) : s[i] \notin Whitespace}
    IN  IF keep = {} THEN <<>> ELSE Slice(s, Min(keep), Max(keep))

(***************************************************************************)
(* The pattern of extract_files.py:10: the literal "### **"; group 1 (one  *)
(* or more characters, as few as possible, then ".swift"), the literal     *)
(* "**", newline, three backticks, "swift", newline; group 2 (any          *)
(* characters, as few as possible); and the literal newline, three         *)
(* backticks;                                                              *)
(* under re.DOTALL: "." matches every character, the newline included.     *)
(***************************************************************************)
PatHead == <<"#","#","#"," ","*","*">>
PatExt == <<".","s","w","i","f","t">>
PatMid == <<"*","*","\n",BT,BT,BT,"s","w","i","f","t","\n">>
PatTail == <<"\n",BT,BT,BT>>

\* where group 2, starting at c, may end: the positions of a following
\* newline and three backticks
TailsFrom(s, c) == {k \in c..Len(s) : LitAt(s, k, PatTail)}

\* where the "\.swift" of group 1 may start for a match that starts at i:
\* ".+?" takes at least one character, "\.swift" and the fence opening follow
\* at once, and a newline and three backticks close the block
ExtsFrom(s, i) ==
    {j \in (i + Len(PatHead) + 1)..Len(s) :
        /\ LitAt(s, j, PatExt)
        /\ LitAt(s, j + Len(PatExt), PatMid)
        /\ TailsFrom(s, j + Len(PatExt) + Len(PatMid)) # {}}

\* the pattern matches at i
MatchesAt(s, i) == LitAt(s, i, PatHead) /\ ExtsFrom(s, i) # {}

\* (mutant: group 2 greedy, up to the last newline and three backticks)
GreedyCodeMatchAt(s, i) ==
    LET j == Min(ExtsFrom(s, i))
        c == j + Len(PatExt) + Len(PatMid)
        k == Max(TailsFrom(s, c))
    IN  [path |-> Slice(s, i + Len(PatHead), j + Len(PatExt) - 1),
         code |-> Slice(s, c, k - 1),
         end  |-> k + Len(PatTail)]
\* the match at i, both groups non-greedy: the first "\.swift" that lets the
\* rest match, then the first newline and three backticks
MatchAt(s, i) ==
    LET j == Min(ExtsFrom(s, i))
        c == j + Len(PatExt) + Len(PatMid)
        k == Min(TailsFrom(s, c))
    IN  [path |-> Slice(s, i + Len(PatHead), j + Len(PatExt) - 1),
         code |-> Slice(s, c, k - 1),
         end  |-> k + Len(PatTail)]

\* re.findall(pattern, s, re.DOTALL) from position pos on: the leftmost match,
\* then the matches after its end; each a pair <<path, code>>
RECURSIVE FindAllFrom(_, _)
FindAllFrom(s, pos) ==
    LET starts == {i \in pos..Len(s) : MatchesAt(s, i)}
    IN  IF starts = {} THEN <<>>
        ELSE LET m == MatchAt(s, Min(starts))
             IN  <<<<m.path, m.code>>>> \o FindAllFrom(s, m.end)

FindAll(s) == FindAllFrom(s, 1)

(***************************************************************************)
(* Paths: os.path.join, os.path.dirname, and the resolution of a path to   *)
(* its components that the operating system does (no symbolic links).      *)
(***************************************************************************)
BaseDir == <<"/","U","s","e","r","s","/","f","r","e","d","r","i","c","k","b","u","r","n","s","/","C","o","d","e","_","R","e","p","o","s","i","t","o","r","i","e","s","/","S","t","u","d","e","n","t","A","n","a","l","y","s","i","s","S","y","s","t","e","m">>

\* os.path.join(a, b): an absolute b replaces a
Join(a, b) ==
    IF b # <<>> /\ b[1] = "/" THEN b
    ELSE IF a = <<>> \/ a[Len(a)] = "/" THEN a \o b
    ELSE a \o <<"/">> \o b

\* os.path.dirname(p)
Dirname(p) ==
    LET slashes == {i \in 1..Len(p) : p[i] = "/"}
        head == IF slashes = {} THEN <<>> ELSE Slice(p, 1, Max(slashes))
        inner == {i \in 1..Len(head) : head[i] # "/"}
    IN  IF inner = {} THEN head ELSE Slice(head, 1, Max(inner))

\* p.split("/")
RECURSIVE SplitSlash(_)
SplitSlash(p) ==
    LET slashes == {i \in 1..Len(p) : p[i] = "/"}
    IN  IF slashes = {} THEN <<p>>
        ELSE <<Slice(p, 1, Min(slashes) - 1)>>
                 \o SplitSlash(Slice(p, Min(slashes) + 1, Len(p)))

\* the components of an absolute path, "" and "." dropped and ".." applied
RECURSIVE ResolveFrom(_, _)
ResolveFrom(cur, parts) ==
    IF parts = <<>> THEN cur
    ELSE LET c == Head(parts)
         IN  IF c = <<>> \/ c = <<".">> THEN ResolveFrom(cur, Tail(parts))
             ELSE IF c = <<".", ".">>
                  THEN ResolveFrom(Slice(cur, 1, Len(cur) - 1), Tail(parts))
                  ELSE ResolveFrom(Append(cur, c), Tail(parts))

Resolve(p) == ResolveFrom(<<>>, SplitSlash(p))

\* a is b or an ancestor of b
IsPrefix(a, b) == Len(a) <= Len(b) /\ Slice(b, 1, Len(a)) = a

(***************************************************************************)
(* The file system: resolved path (a sequence of components) -> node.      *)
(* The root is the empty path; a node is a directory or a regular file.    *)
(***************************************************************************)
Dir == [kind |-> "dir", data |-> <<>>]
File(d) == [kind |-> "file", data |-> d]

IsDir(f, p) == p \in DOMAIN f /\ f[p].kind = "dir"
IsFile(f, p) == p \in DOMAIN f /\ f[p].kind = "file"

\* f with node n at path p, created or replaced
Put(f, p, n) == [q \in DOMAIN f \cup {p} |-> IF q = p THEN n ELSE f[q]]

\* os.makedirs(name, exist_ok=True), name split into parts, from directory
\* cur on: every missing directory is created, top down; a component that
\* exists and is no directory raises (FileExistsError or NotADirectoryError)
RECURSIVE MakedirsFrom(_, _, _)
MakedirsFrom(f, cur, parts) ==
    IF parts = <<>> THEN [ok |-> TRUE, fs |-> f, err |-> "none"]
    ELSE LET c == Head(parts)
             nxt == Append(cur, c)
         IN  IF c = <<>> \/ c = <<".">> THEN MakedirsFrom(f, cur, Tail(parts))
             ELSE IF c = <<".", ".">>
                  THEN MakedirsFrom(f, Slice(cur, 1, Len(cur) - 1), Tail(parts))
             ELSE IF nxt \notin DOMAIN f
                  THEN MakedirsFrom(Put(f, nxt, Dir), nxt, Tail(parts))
             ELSE IF f[nxt].kind = "dir"
                  THEN MakedirsFrom(f, nxt, Tail(parts))
             ELSE [ok |-> FALSE, fs |-> f,
                   err |-> IF Tail(parts) = <<>> THEN "FileExistsError"
                           ELSE "NotADirectoryError"]

\* (mutant: exist_ok left out, so a directory that exists raises)
MakedirsExclusive(f, name) ==
    IF IsDir(f, ResolveFrom(<<>>, SplitSlash(name)))
    THEN [ok |-> FALSE, fs |-> f, err |-> "FileExistsError"]
    ELSE MakedirsFrom(f, <<>>, SplitSlash(name))
Makedirs(f, name) == MakedirsFrom(f, <<>>, SplitSlash(name))

(***************************************************************************)
(* The inputs: documents composed of pieces, and file systems.             *)
(***************************************************************************)
(***************************************************************************)
(* Files hold bytes. A text-mode file encodes what is written and decodes  *)
(* what is read, in UTF-8. A byte below 0x80 is written as the character   *)
(* it encodes, another byte as "x" and its two hexadecimal digits.         *)
(***************************************************************************)
\* the encodings of the characters beyond U+007F that occur
Utf8Table ==
    ("U+00E9" :> <<"xC3","xA9">>)
    @@ ("U+0085" :> <<"xC2","x85">>) @@ ("U+00A0" :> <<"xC2","xA0">>)
    @@ ("U+1680" :> <<"xE1","x9A","x80">>)
    @@ ("U+2000" :> <<"xE2","x80","x80">>) @@ ("U+2001" :> <<"xE2","x80","x81">>)
    @@ ("U+2002" :> <<"xE2","x80","x82">>) @@ ("U+2003" :> <<"xE2","x80","x83">>)
    @@ ("U+2004" :> <<"xE2","x80","x84">>) @@ ("U+2005" :> <<"xE2","x80","x85">>)
    @@ ("U+2006" :> <<"xE2","x80","x86">>) @@ ("U+2007" :> <<"xE2","x80","x87">>)
    @@ ("U+2008" :> <<"xE2","x80","x88">>) @@ ("U+2009" :> <<"xE2","x80","x89">>)
    @@ ("U+200A" :> <<"xE2","x80","x8A">>) @@ ("U+2028" :> <<"xE2","x80","xA8">>)
    @@ ("U+2029" :> <<"xE2","x80","xA9">>) @@ ("U+202F" :> <<"xE2","x80","xAF">>)
    @@ ("U+205F" :> <<"xE2","x81","x9F">>) @@ ("U+3000" :> <<"xE3","x80","x80">>)

\* the bytes of one character
Utf8(c) == IF c \in DOMAIN Utf8Table THEN Utf8Table[c] ELSE <<c>>

\* the second and later bytes of a character: 0x80..0xBF
ContinuationBytes ==
    UNION {{Utf8Table[c][k] : k \in 2..Len(Utf8Table[c])} : c \in DOMAIN Utf8Table}

\* str.encode: the bytes of every character, in order. Each character takes
\* up to three places, and the places it leaves free are dropped
Encode(s) ==
    LET place == [k \in 1..(3 * Len(s)) |->
                     LET u == Utf8(s[((k - 1) \div 3) + 1])
                         j == ((k - 1) % 3) + 1
                     IN  IF j <= Len(u) THEN <<u[j]>> ELSE <<>>]
        used  == SelectSeq(place, LAMBDA x : x # <<>>)
    IN  [k \in 1..Len(used) |-> used[k][1]]

\* bytes.decode of well-formed UTF-8: a character starts at every byte that
\* is not a continuation byte and runs to the byte before the next start
Decode(b) ==
    LET starts == {i \in 1..Len(b) : b[i] \notin ContinuationBytes}
        stop(i) == Min({j \in (starts \cup {Len(b) + 1}) : j > i}) - 1
        char(i) == IF stop(i) = i THEN b[i]
                   ELSE CHOOSE c \in DOMAIN Utf8Table : Utf8Table[c] = Slice(b, i, stop(i))
        marked == [i \in 1..Len(b) |-> IF i \in starts THEN <<char(i)>> ELSE <<>>]
        kept   == SelectSeq(marked, LAMBDA x : x # <<>>)
    IN  [k \in 1..Len(kept) |-> kept[k][1]]

HelloWorld == <<"h","e","l","l","o","\n","w","o","r","l","d">>
ASwift == <<"a",".","s","w","i","f","t">>

\* a section as the document's author writes it: header line, swift fence,
\* body, closing fence line
Section(p, b) == [kind |-> "section", path |-> p, body |-> b]
Text(t) == [kind |-> "text", text |-> t]

Render(piece) ==
    IF piece.kind = "section"
    THEN <<"#","#","#"," ","*","*">> \o piece.path
             \o <<"*","*","\n",BT,BT,BT,"s","w","i","f","t","\n">>
             \o piece.body \o <<"\n",BT,BT,BT,"\n">>
    ELSE piece.text

Pieces ==
    { Section(ASwift, <<"x">>),
      Section(ASwift, HelloWorld),
      Section(ASwift, <<"x","\n",BT,BT,BT,"\n","y">>),
      Section(<<"d","/","a",".","s","w","i","f","t">>, <<>>),
      Section(<<"/","a",".","s","w","i","f","t">>, <<"x">>),
      Section(<<".",".","/","a",".","s","w","i","f","t">>, <<"x">>),
      Section(<<" ","a",".","s","w","i","f","t">>, <<"y">>),
      Section(<<"b",".","s","w","i","f","t">>, <<"x","\r","\n","y">>),
      Section(ASwift, <<"a","U+00E9">>),
      Section(<<"a","/","b","/","c",".","t","x","t">>, HelloWorld),
      Text(<<"#","#","#"," ","*","*","f","o","o","\n">>),
      Text(<<"n","o","t","e","s","\n">>),
      Text(<<"#","#","#"," ","*","*","a",".","s","w","i","f","t","*","*","\n",
             BT,BT,BT,"s","w","i","f","t","\n",BT,BT,BT,"\n">>) }

RECURSIVE SeqsUpTo(_, _)
SeqsUpTo(S, n) ==
    IF n = 0 THEN {<<>>}
    ELSE LET shorter == SeqsUpTo(S, n - 1)
         IN  shorter \cup {Append(q, x) : q \in shorter, x \in S}

Docs == SeqsUpTo(Pieces, MaxPieces)

\* the characters of remaining_files.txt, as its author typed them
FileText(d) == Flatten([i \in 1..Len(d) |-> Render(d[i])])

\* what text mode does on reading (newline=None): "\r\n" and "\r" become "\n"
UniversalNewlines(s) ==
    LET marked == [i \in 1..Len(s) |->
                      [c    |-> IF s[i] = "\r" THEN "\n" ELSE s[i],
                       drop |-> s[i] = "\n" /\ i > 1 /\ s[i - 1] = "\r"]]
        kept   == SelectSeq(marked, LAMBDA m : ~m.drop)
    IN  [k \in 1..Len(kept) |-> kept[k].c]

\* the bytes of remaining_files.txt, as stored
FileBytes(d) == Encode(FileText(d))

\* open(input_file, 'r').read(): the bytes of remaining_files.txt, decoded
\* and with the newlines translated
InputText(d) == UniversalNewlines(Decode(FileBytes(d)))

Base == Resolve(BaseDir)

\* only the root exists
FsEmpty == (<<>> :> Dir)
\* the base directory exists and is empty
FsBase == [p \in {Slice(Base, 1, n) : n \in 0..Len(Base)} |-> Dir]
\* <base>/a.swift and <base>/d are regular files
FsOld == (Append(Base, ASwift) :> File(<<"o","l","d">>))
             @@ (Append(Base, <<"d">>) :> File(<<"o","l","d">>)) @@ FsBase
\* <base>/a.swift is a directory
FsADir == (Append(Base, ASwift) :> Dir) @@ FsBase

FileSystems == {FsEmpty, FsOld, FsADir}

(***************************************************************************)
(* extract_files.py                                                        *)
(***************************************************************************)
\* line 16: filepath = filepath.strip()
filepath == Strip(matches[idx][1])
\* (mutant: a newline appended to what is written)
codeWithNewline == Append(matches[idx][2], "\n")
\* line 14: the code of the current match
code == matches[idx][2]
\* line 19: full_path = os.path.join(<base>, filepath)
full_path == Join(BaseDir, filepath)
\* the node full_path names
target == Resolve(full_path)

\* an unhandled exception e ends the process; every with block left on the
\* way closes its file
Raise(e) ==
    /\ pc' = "exit"
    /\ err' = e
    /\ handles' = {}

\* line 6: open(input_file, 'r')
OpenInput ==
    /\ prog = "extract" /\ pc = "open_input"
    /\ inputState # "missing"
    /\ handles' = handles \cup {"input"}
    /\ pc' = "read"
    /\ UNCHANGED <<prog, run, log, err, extractorVars, inspectorVars>>

OpenInputFails ==
    /\ prog = "extract" /\ pc = "open_input"
    /\ inputState = "missing"
    /\ Raise("FileNotFoundError")
    /\ UNCHANGED <<prog, run, log, extractorVars, inspectorVars>>

\* (mutant: the input file opened without a with block and never closed)
ReadInputLeaks ==
    /\ prog = "extract" /\ pc = "read"
    /\ inputState = "ok"
    /\ content' = InputText(doc)
    /\ pc' = "findall"
    /\ UNCHANGED <<prog, run, handles, log, err, doc, inputState, fs, fs0, fs1,
                   matches, idx, written, inspectorVars>>
\* lines 6-7: content = f.read(), and the with block is left
ReadInput ==
    /\ prog = "extract" /\ pc = "read"
    /\ inputState = "ok"
    /\ content' = InputText(doc)
    /\ handles' = handles \ {"input"}
    /\ pc' = "findall"
    /\ UNCHANGED <<prog, run, log, err, doc, inputState, fs, fs0, fs1, matches,
                   idx, written, inspectorVars>>

ReadInputFails ==
    /\ prog = "extract" /\ pc = "read"
    /\ inputState = "undecodable"
    /\ Raise("UnicodeDecodeError")
    /\ UNCHANGED <<prog, run, log, extractorVars, inspectorVars>>

\* lines 10-12: matches = re.findall(pattern, content, re.DOTALL)
FindMatches ==
    /\ prog = "extract" /\ pc = "findall"
    /\ matches' = FindAll(content)
    /\ idx' = 1
    /\ pc' = "for"
    /\ UNCHANGED <<prog, run, handles, log, err, doc, inputState, fs, fs0, fs1,
                   content, written, inspectorVars>>

\* lines 14-22: the next match; strip, join, os.makedirs(dirname, exist_ok=True)
MakeDirectories ==
    /\ prog = "extract" /\ pc = "for" /\ idx <= Len(matches)
    /\ LET r == Makedirs(fs, Dirname(full_path))
       IN  /\ r.ok
           /\ fs' = r.fs
    /\ pc' = "open_output"
    /\ UNCHANGED <<prog, run, handles, log, err, doc, inputState, fs0, fs1,
                   content, matches, idx, written, inspectorVars>>

MakeDirectoriesFails ==
    /\ prog = "extract" /\ pc = "for" /\ idx <= Len(matches)
    /\ LET r == Makedirs(fs, Dirname(full_path))
       IN  /\ ~r.ok
           /\ fs' = r.fs
           /\ Raise(r.err)
    /\ UNCHANGED <<prog, run, log, doc, inputState, fs0, fs1, content, matches,
                   idx, written, inspectorVars>>

\* line 25: open(full_path, 'w') creates the file or truncates it
OpenOutput ==
    /\ prog = "extract" /\ pc = "open_output"
    /\ ~IsDir(fs, target)
    /\ fs' = Put(fs, target, File(<<>>))
    /\ written' = written \cup {target}
    /\ handles' = handles \cup {"output"}
    /\ pc' = "write"
    /\ UNCHANGED <<prog, run, log, err, doc, inputState, fs0, fs1, content,
                   matches, idx, inspectorVars>>

\* (mutant: the "Written:" line printed before the file is opened)
OpenOutputFailsAfterPrint ==
    /\ prog = "extract" /\ pc = "open_output"
    /\ IsDir(fs, target)
    /\ log' = Append(log, <<"Written: ", filepath>>)
    /\ Raise("IsADirectoryError")
    /\ UNCHANGED <<prog, run, extractorVars, inspectorVars>>
\* line 25: open(full_path, 'w') of a directory raises
OpenOutputFails ==
    /\ prog = "extract" /\ pc = "open_output"
    /\ IsDir(fs, target)
    /\ Raise("IsADirectoryError")
    /\ UNCHANGED <<prog, run, log, extractorVars, inspectorVars>>

\* lines 25-26: f.write(code), and the with block is left
WriteOutput ==
    /\ prog = "extract" /\ pc = "write"
    /\ fs' = Put(fs, target, File(Encode(code)))
    /\ handles' = handles \ {"output"}
    /\ pc' = "print_written"
    /\ UNCHANGED <<prog, run, log, err, doc, inputState, fs0, fs1, content,
                   matches, idx, written, inspectorVars>>

\* lines 25-26 when the device runs full: the file, which open has already
\* truncated, receives the first n bytes of the encoded code, fewer than all
\* and possibly ending inside a character; the write raises OSError and the
\* with block closes the file
WriteOutputFails ==
    /\ prog = "extract" /\ pc = "write"
    /\ \E n \in 0..(Len(Encode(code)) - 1) :
           fs' = Put(fs, target, File(Slice(Encode(code), 1, n)))
    /\ Raise("OSError")
    /\ UNCHANGED <<prog, run, log, doc, inputState, fs0, fs1, content, matches,
                   idx, written, inspectorVars>>

\* line 28: print(f"Written: {filepath}"), and the loop goes on
PrintWritten ==
    /\ prog = "extract" /\ pc = "print_written"
    /\ log' = Append(log, <<"Written: ", filepath>>)
    /\ idx' = idx + 1
    /\ pc' = "for"
    /\ UNCHANGED <<prog, run, handles, err, doc, inputState, fs, fs0, fs1,
                   content, matches, written, inspectorVars>>

\* (mutant: the completion message printed only when something was written)
PrintCompleteAfterWrites ==
    /\ prog = "extract" /\ pc = "for" /\ idx > Len(matches)
    /\ log' = IF matches = <<>> THEN log
              ELSE Append(log, <<"\nExtraction complete!">>)
    /\ pc' = "exit"
    /\ UNCHANGED <<prog, run, handles, err, extractorVars, inspectorVars>>
\* line 32: the loop is over, the function returns, and the script prints
\* the completion message and exits with status 0
PrintComplete ==
    /\ prog = "extract" /\ pc = "for" /\ idx > Len(matches)
    /\ log' = Append(log, <<"\nExtraction complete!">>)
    /\ pc' = "exit"
    /\ UNCHANGED <<prog, run, handles, err, extractorVars, inspectorVars>>

\* the operator runs the script a second time on the same document
RunAgain ==
    /\ prog = "extract" /\ pc = "exit" /\ run = 1
    /\ run' = 2
    /\ fs1' = [fs |-> fs, log |-> log, err |-> err]
    /\ pc' = "open_input"
    /\ log' = <<>>
    /\ err' = "none"
    /\ content' = <<>>
    /\ matches' = <<>>
    /\ idx' = 1
    /\ written' = {}
    /\ UNCHANGED <<prog, handles, doc, inputState, fs, fs0, inspectorVars>>

(***************************************************************************)
(* test.py                                                                 *)
(***************************************************************************)
\* line 7: the number of rows previewed
PreviewRows == 5

\* line 8: the columns the preview reads
Columns == {"MSIS", "D1OP", "DTOP", "SCALE_SCORE"}

\* csv.DictReader's restval: the value None, which is no string
None == <<"None">>

\* str(v), as the f-string of line 8 formats a value
Str(v) == IF v = None THEN <<"N", "o", "n", "e">> ELSE v

\* the row csv.DictReader builds from one record: dict(zip(fieldnames, rec)),
\* the fields a short record lacks set to restval, the fields a long record
\* has beyond the header kept under restkey. The key restkey is None, which
\* is no column name: named holds the dict's string keys, rest the list under
\* the key None (empty when the dict has no such key)
RowDict(fields, rec) ==
    LET lf == Len(fields)
        lr == Len(rec)
    IN  [named |-> [k \in {fields[i] : i \in 1..lf} |->
                       LET last == Max({i \in 1..lf : fields[i] = k})
                       IN  IF last <= lr THEN rec[last] ELSE None],
         rest |-> IF lr > lf THEN Slice(rec, lf + 1, lr) ELSE <<>>]

\* the records DictReader has still to yield: it skips the empty ones
RowsLeft == {i \in (line + 1)..Len(records) : records[i] # <<>>}

\* line 8: the preview line of a row
PreviewLine(r) ==
    <<"MSIS: ", Str(r.named["MSIS"]), ", D1OP: ", Str(r.named["D1OP"]),
      ", DTOP: ", Str(r.named["DTOP"]), ", SCALE: ", Str(r.named["SCALE_SCORE"])>>

\* lines 3-5: open the file, reader = csv.DictReader(f), count = 0
OpenCsv ==
    /\ prog = "inspect" /\ pc = "open_csv"
    /\ csvState = "ok"
    /\ handles' = handles \cup {"csv"}
    /\ line' = 0
    /\ count' = 0
    /\ pc' = "for_row"
    /\ UNCHANGED <<prog, run, log, err, extractorVars, csvState, fieldnames,
                   records, row>>

OpenCsvFails ==
    /\ prog = "inspect" /\ pc = "open_csv"
    /\ csvState = "missing"
    /\ Raise("FileNotFoundError")
    /\ UNCHANGED <<prog, run, log, extractorVars, inspectorVars>>

\* line 6: the reader yields the next row
NextRow ==
    /\ prog = "inspect" /\ pc = "for_row"
    /\ RowsLeft # {}
    /\ line' = Min(RowsLeft)
    /\ row' = RowDict(fieldnames, records[Min(RowsLeft)])
    /\ pc' = "body"
    /\ UNCHANGED <<prog, run, handles, log, err, extractorVars, csvState,
                   fieldnames, records, count>>

\* line 6: the reader is exhausted
EndOfRows ==
    /\ prog = "inspect" /\ pc = "for_row"
    /\ RowsLeft = {}
    /\ line' = Len(records)
    /\ pc' = "print_total"
    /\ UNCHANGED <<prog, run, handles, log, err, extractorVars, csvState,
                   fieldnames, records, row, count>>

\* (mutant: count <= 5 for count < 5)
PrintRowInclusive ==
    /\ prog = "inspect" /\ pc = "body"
    /\ count <= PreviewRows
    /\ Columns \subseteq DOMAIN row.named
    /\ log' = Append(log, PreviewLine(row))
    /\ count' = count + 1
    /\ pc' = "for_row"
    /\ UNCHANGED <<prog, run, handles, err, extractorVars, csvState,
                   fieldnames, records, line, row>>
\* lines 7-9: one of the first rows, previewed and counted
PrintRow ==
    /\ prog = "inspect" /\ pc = "body"
    /\ count < PreviewRows
    /\ Columns \subseteq DOMAIN row.named
    /\ log' = Append(log, PreviewLine(row))
    /\ count' = count + 1
    /\ pc' = "for_row"
    /\ UNCHANGED <<prog, run, handles, err, extractorVars, csvState,
                   fieldnames, records, line, row>>

\* (mutant: row.get(...) for row[...], so a missing column prints None)
PrintRowWithDefaults ==
    /\ prog = "inspect" /\ pc = "body"
    /\ count < PreviewRows
    /\ ~(Columns \subseteq DOMAIN row.named)
    /\ log' = Append(log, <<"MSIS: ", Str(None)>>)
    /\ count' = count + 1
    /\ pc' = "for_row"
    /\ UNCHANGED <<prog, run, handles, err, extractorVars, csvState,
                   fieldnames, records, line, row>>
\* line 8: row[...] of a column the file does not have
PrintRowFails ==
    /\ prog = "inspect" /\ pc = "body"
    /\ count < PreviewRows
    /\ ~(Columns \subseteq DOMAIN row.named)
    /\ Raise("KeyError")
    /\ UNCHANGED <<prog, run, log, extractorVars, inspectorVars>>

\* lines 7-9: a later row, only counted
CountRow ==
    /\ prog = "inspect" /\ pc = "body"
    /\ count >= PreviewRows
    /\ count' = count + 1
    /\ pc' = "for_row"
    /\ UNCHANGED <<prog, run, handles, log, err, extractorVars, csvState,
                   fieldnames, records, line, row>>

\* line 10: print(f"Total rows: {count}"), and the with block is left
PrintTotal ==
    /\ prog = "inspect" /\ pc = "print_total"
    /\ log' = Append(log, <<"Total rows: ", count>>)
    /\ handles' = handles \ {"csv"}
    /\ pc' = "exit"
    /\ UNCHANGED <<prog, run, err, extractorVars, inspectorVars>>

(***************************************************************************)
(* The CSV files of the model.                                             *)
(***************************************************************************)
Headers ==
    { <<"MSIS", "D1OP", "DTOP", "SCALE_SCORE">>,
      <<"GRADE", "SCALE_SCORE", "DTOP", "D1OP", "MSIS">>,
      <<"D1OP", "DTOP", "SCALE_SCORE">>,
      <<"MSIS", "DTOP", "SCALE_SCORE">>,
      <<"MSIS", "D1OP", "SCALE_SCORE">>,
      <<"MSIS", "D1OP", "DTOP", "SCALE">> }

\* the i-th data record under header h: the field of column c is <<c, i>>
DataRecord(h, i) == [j \in 1..Len(h) |-> <<h[j], i>>]

\* n data records under header h; with b > 0 an empty record before the
\* b-th; with ragged the last record lacks its last field
RECURSIVE RecordsFrom(_, _, _, _, _)
RecordsFrom(h, i, n, b, ragged) ==
    IF i > n THEN <<>>
    ELSE LET full == DataRecord(h, i)
             rec == IF ragged /\ i = n THEN Slice(full, 1, Len(h) - 1) ELSE full
         IN  (IF i = b THEN <<<<>>, rec>> ELSE <<rec>>)
                 \o RecordsFrom(h, i + 1, n, b, ragged)

\* the data records of a file, in file order
DataRecords == SelectSeq(records, LAMBDA r : r # <<>>)

(***************************************************************************)
(* The specification.                                                      *)
(***************************************************************************)
InitExtract ==
    /\ prog = "extract"
    /\ pc = "open_input"
    /\ doc \in Docs
    /\ inputState \in {"ok", "missing", "undecodable"}
    /\ inputState # "ok" => doc = <<>>
    /\ fs \in FileSystems
    /\ fs0 = fs
    /\ csvState = "ok" /\ fieldnames = <<>> /\ records = <<>>

InitInspect ==
    /\ prog = "inspect"
    /\ pc = "open_csv"
    /\ doc = <<>> /\ inputState = "ok" /\ fs = FsEmpty /\ fs0 = FsEmpty
    /\ csvState \in {"ok", "missing"}
    /\ fieldnames \in Headers
    /\ \E n \in 0..MaxRecords : \E b \in 0..n : \E ragged \in BOOLEAN :
           /\ csvState = "missing" => n = 0
           /\ ragged => n > 0
           /\ records = RecordsFrom(fieldnames, 1, n, b, ragged)

Init ==
    /\ run = 1
    /\ handles = {}
    /\ log = <<>>
    /\ err = "none"
    /\ fs1 = [fs |-> FsEmpty, log |-> <<>>, err |-> "none"]
    /\ content = <<>>
    /\ matches = <<>>
    /\ idx = 1
    /\ written = {}
    /\ line = 0
    /\ row = [named |-> <<>>, rest |-> <<>>]
    /\ count = 0
    /\ (InitExtract \/ InitInspect)

Next ==
    \/ OpenInput \/ OpenInputFails \/ ReadInput \/ ReadInputFails
    \/ FindMatches \/ MakeDirectories \/ MakeDirectoriesFails
    \/ OpenOutput \/ OpenOutputFails \/ WriteOutput \/ PrintWritten
    \/ PrintComplete \/ RunAgain
    \/ OpenCsv \/ OpenCsvFails \/ NextRow \/ EndOfRows
    \/ PrintRow \/ PrintRowFails \/ CountRow \/ PrintTotal

\* both scripts on storage that takes every write
Spec == Init /\ [][Next]_vars

\* both scripts on storage that may run full during a write
NextFull == Next \/ WriteOutputFails

SpecFull == Init /\ [][NextFull]_vars

(***************************************************************************)
(* Vocabulary of the properties.                                           *)
(***************************************************************************)
Completed == prog = "extract" /\ pc = "exit" /\ err = "none"

\* the file system at the start of the current run
fsAtStart == IF run = 1 THEN fs0 ELSE fs1.fs

EndsWithSwift(p) == Len(p) > Len(PatExt) /\ LitAt(p, Len(p) - Len(PatExt) + 1, PatExt)

\* no line of b starts with a fence: no newline followed by three backticks
FenceFree(b) == \A k \in 1..Len(b) : ~LitAt(b, k, PatTail)

\* b holds no carriage return, which reading would turn into a newline
NoCarriageReturn(b) == \A k \in 1..Len(b) : b[k] # "\r"

\* a section whose header line names a .swift path
WellFormed(piece) ==
    /\ piece.kind = "section"
    /\ EndsWithSwift(piece.path)
    /\ \A k \in 1..Len(piece.path) : piece.path[k] \notin {"\n", "\r"}

\* <base>/p, as the operating system resolves it
UnderBase(p) == Resolve(BaseDir \o <<"/">> \o p)

\* the destination of a section: its trimmed path joined onto the base
DestOf(piece) == Resolve(Join(BaseDir, Strip(piece.path)))

\* the destination of the j-th match
DestOfMatch(j) == Resolve(Join(BaseDir, Strip(matches[j][1])))

\* the file at p holds the text, encoded
Holds(p, text) == IsFile(fs, p) /\ fs[p].data = Encode(text)

WrittenLines(n) == [j \in 1..n |-> <<"Written: ", Strip(matches[j][1])>>]

\* the run has ended on a failure of the loop's idx-th entry
EntryFailed ==
    /\ prog = "extract" /\ pc = "exit"
    /\ err \in {"FileExistsError", "NotADirectoryError", "IsADirectoryError", "OSError"}

(***************************************************************************)
(* C1  Round trip.                                                         *)
(***************************************************************************)
\* C1 as stated: when a run completes on a document containing a section
\* with relative path p and content c, the file <base>/p holds exactly c.
C1_RoundTripAnyPath ==
    Completed =>
        \A i \in 1..Len(doc) :
            (doc[i].kind = "section" /\ doc[i].path[1] # "/")
                => Holds(UnderBase(doc[i].path), doc[i].body)

\* t holds no header opener, the text "### **"
HeaderFree(t) == \A k \in 1..Len(t) : ~LitAt(t, k, PatHead)

\* a piece in which no match can start except at the header line of a
\* section naming a .swift path
Closed(piece) ==
    IF piece.kind = "section"
    THEN WellFormed(piece) /\ HeaderFree(piece.body)
    ELSE HeaderFree(piece.text)

\* the matched entries whose destination is <base>/p
EntriesAt(p) == {j \in 1..Len(matches) : DestOfMatch(j) = UnderBase(p)}

\* C1 amended: when a run completes, for every section of the document that
\* names a relative path p ending in .swift with no leading whitespace, whose
\* content c has no line starting with a fence and no carriage return, that
\* is preceded only by .swift sections and text holding no header opener
\* outside a section's header line, and whose destination no other entry
\* names, the file <base>/p holds exactly c: nothing added, nothing removed,
\* no trailing newline.
C1_RoundTripSwift ==
    Completed =>
        \A i \in 1..Len(doc) :
            (/\ WellFormed(doc[i])
             /\ doc[i].path[1] \notin Whitespace \cup {"/"}
             /\ FenceFree(doc[i].body)
             /\ NoCarriageReturn(doc[i].body)
             /\ \A k \in 1..(i - 1) : Closed(doc[k])
             /\ Cardinality(EntriesAt(doc[i].path)) <= 1)
                => Holds(UnderBase(doc[i].path), doc[i].body)

C1_Witness ==
    /\ Completed
    /\ doc = <<Text(<<"n","o","t","e","s","\n">>), Section(ASwift, HelloWorld)>>
    /\ Holds(Append(Base, ASwift), HelloWorld)

(***************************************************************************)
(* C2  Multiplicity.                                                       *)
(***************************************************************************)
AllWellFormed == \A i \in 1..Len(doc) : WellFormed(doc[i])

\* C2 as stated: when a run completes on a document of N well-formed
\* sections, N files have been written and every section's destination holds
\* that section's content, whatever the paths and the contents.
C2_EverySectionWritten ==
    (Completed /\ AllWellFormed) =>
        /\ Len(log) = Len(doc) + 1
        /\ \A i \in 1..Len(doc) : Holds(DestOf(doc[i]), doc[i].body)

\* C2 amended: when a run completes on a document of N well-formed sections
\* whose destinations are pairwise distinct and whose contents have no line
\* starting with a fence and no carriage return, the run has matched N
\* entries, printed N "Written:" lines, written N files, and every section's
\* destination holds exactly that section's content.
C2_DistinctSectionsWritten ==
    (/\ Completed
     /\ AllWellFormed
     /\ \A i, j \in 1..Len(doc) : i # j => DestOf(doc[i]) # DestOf(doc[j])
     /\ \A i \in 1..Len(doc) : FenceFree(doc[i].body) /\ NoCarriageReturn(doc[i].body))
        => /\ Len(matches) = Len(doc)
           /\ Len(log) = Len(doc) + 1
           /\ Cardinality(written) = Len(doc)
           /\ \A i \in 1..Len(doc) : Holds(DestOf(doc[i]), doc[i].body)

C2_Witness ==
    /\ Completed
    /\ Len(doc) = MaxPieces
    /\ AllWellFormed
    /\ Cardinality({DestOf(doc[i]) : i \in 1..Len(doc)}) = Len(doc)
    /\ \A i \in 1..Len(doc) : FenceFree(doc[i].body) /\ NoCarriageReturn(doc[i].body)
    /\ \E i \in 1..Len(doc) : doc[i].body = <<>>
    /\ Cardinality(written) = Len(doc)

(***************************************************************************)
(* C3  Containment.                                                        *)
(***************************************************************************)
\* C3: every file the extractor opens for writing lies under the base
\* directory.
C3_WritesUnderBase ==
    \A p \in written : IsPrefix(Base, p) /\ p # Base

(***************************************************************************)
(* C4  Idempotence.                                                        *)
(***************************************************************************)
\* C4 as stated: from any file system, the second run on the same document
\* ends with the files of the first run and raises no error.
C4_SecondRunNeverFails ==
    (prog = "extract" /\ inputState = "ok" /\ run = 2 /\ pc = "exit")
        => (fs = fs1.fs /\ err = "none")

\* C4 amended: from any file system, on storage that takes every write, the
\* second run on the same document creates no file or directory, ends with
\* the files and contents of the first run, and ends as the first run did:
\* it raises no error when the first raised none.
C4_SecondRunRepeatsFirst ==
    (prog = "extract" /\ run = 2) =>
        /\ DOMAIN fs = DOMAIN fs1.fs
        /\ pc = "exit" => (fs = fs1.fs /\ err = fs1.err /\ log = fs1.log)

C4_Witness ==
    /\ prog = "extract" /\ run = 2 /\ pc = "exit" /\ err = "none"
    /\ fs0 = FsEmpty
    /\ Len(matches) = MaxPieces
    /\ fs = fs1.fs
    /\ IsDir(fs, Base)

(***************************************************************************)
(* C5  No matching section.                                                *)
(***************************************************************************)
\* C5: on a document in which nothing matches, the run touches no file and no
\* directory, prints no "Written:" line, raises no error, and ends after
\* printing the completion message alone.
C5_NothingMatchedNothingDone ==
    (/\ prog = "extract" /\ inputState = "ok"
     /\ pc \in {"for", "open_output", "write", "print_written", "exit"}
     /\ matches = <<>>)
        => /\ pc \in {"for", "exit"}
           /\ err = "none"
           /\ fs = fs0
           /\ written = {}
           /\ handles = {}
           /\ log = IF pc = "exit" THEN <<<<"\nExtraction complete!">>>> ELSE <<>>

C5_Witness ==
    /\ Completed
    /\ doc = <<Section(<<"a","/","b","/","c",".","t","x","t">>, HelloWorld)>>
    /\ matches = <<>>
    /\ fs = FsEmpty
    /\ log = <<<<"\nExtraction complete!">>>>

(***************************************************************************)
(* C6  Preview bound and count.                                            *)
(***************************************************************************)
HasColumns == Columns \subseteq {fieldnames[i] : i \in 1..Len(fieldnames)}

\* the text of column c in record rec, "None" where the record is too short
FieldOf(rec, c) ==
    LET j == Max({i \in 1..Len(fieldnames) : fieldnames[i] = c})
    IN  IF j <= Len(rec) THEN rec[j] ELSE <<"N", "o", "n", "e">>

ExpectedLine(rec) ==
    <<"MSIS: ", FieldOf(rec, "MSIS"), ", D1OP: ", FieldOf(rec, "D1OP"),
      ", DTOP: ", FieldOf(rec, "DTOP"), ", SCALE: ", FieldOf(rec, "SCALE_SCORE")>>

\* C6: on a file with the four columns and N data rows the script prints the
\* preview lines of rows 1..min(N, 5), in file order, then "Total rows: N",
\* and nothing else.
C6_PreviewAndTotal ==
    (prog = "inspect" /\ csvState = "ok" /\ HasColumns /\ pc = "exit") =>
        LET N == Len(DataRecords)
            shown == IF N < 5 THEN N ELSE 5
        IN  /\ err = "none"
            /\ Len(log) = shown + 1
            /\ \A i \in 1..shown : log[i] = ExpectedLine(DataRecords[i])
            /\ log[shown + 1] = <<"Total rows: ", N>>

C6_Witness ==
    /\ prog = "inspect" /\ pc = "exit" /\ HasColumns
    /\ Len(DataRecords) = 10
    /\ Len(records) = 11
    /\ Len(log) = 6
    /\ log[5] = ExpectedLine(DataRecords[5])
    /\ log[6] = <<"Total rows: ", 10>>

(***************************************************************************)
(* C7  Failure of one entry.                                               *)
(***************************************************************************)
\* the last of the entries before the idx-th that wrote the destination of
\* the j-th
LastWriter(j) == \A i \in (j + 1)..(idx - 1) : DestOfMatch(i) # DestOfMatch(j)

\* what C7 says besides the fate of the earlier files: only destinations of
\* entries 1..idx were touched, the output is the "Written:" lines of entries
\* 1..idx-1, and no handle stays open
FailureFrame ==
    /\ idx \in 1..Len(matches)
    /\ log = WrittenLines(idx - 1)
    /\ handles = {}
    /\ \A p \in DOMAIN fs :
           (IsFile(fs, p) /\ p \notin {DestOfMatch(j) : j \in 1..idx})
               => (p \in DOMAIN fsAtStart /\ fs[p] = fsAtStart[p])

\* C7 as stated: when the k-th entry fails, every file written for entries
\* 1..k-1 still holds what was written to it.
C7_EarlierFilesIntact ==
    EntryFailed =>
        /\ FailureFrame
        /\ \A j \in 1..(idx - 1) :
               LastWriter(j) => Holds(DestOfMatch(j), matches[j][2])

\* C7 amended: when the k-th entry fails, every file written for entries
\* 1..k-1 at a destination other than the k-th entry's still holds what was
\* written to it (the k-th destination itself may hold nothing, or only a
\* leading part of the k-th content, after a failing write); nothing is
\* written for a later entry, no "Written:" line is printed for entry k or
\* a later one, the completion message is not printed, and the run ends in
\* the error.
C7_EarlierFilesIntactElsewhere ==
    EntryFailed =>
        /\ FailureFrame
        /\ \A j \in 1..(idx - 1) :
               (LastWriter(j) /\ DestOfMatch(j) # DestOfMatch(idx))
                   => Holds(DestOfMatch(j), matches[j][2])

C7_Witness ==
    /\ EntryFailed
    /\ run = 1
    /\ idx = 2
    /\ DestOfMatch(1) # DestOfMatch(2)
    /\ Holds(DestOfMatch(1), matches[1][2])
    /\ log = WrittenLines(1)

(***************************************************************************)
(* C8  Missing column.                                                     *)
(***************************************************************************)
\* C8 as stated: on every file that lacks one of the four columns the script
\* ends in KeyError without printing the total.
C8_MissingColumnAlwaysFails ==
    (prog = "inspect" /\ csvState = "ok" /\ ~HasColumns /\ pc = "exit")
        => (err = "KeyError" /\ log = <<>>)

\* C8 amended: on every file that lacks one of the four columns and has at
\* least one data row the script ends in KeyError at the first row, having
\* printed nothing; with no data row it prints "Total rows: 0" and ends
\* normally.
C8_MissingColumnFailsOnFirstRow ==
    (prog = "inspect" /\ csvState = "ok" /\ ~HasColumns /\ pc = "exit") =>
        IF Len(DataRecords) > 0
        THEN err = "KeyError" /\ log = <<>> /\ count = 0
        ELSE err = "none" /\ log = <<<<"Total rows: ", 0>>>>

C8_Witness ==
    /\ prog = "inspect" /\ pc = "exit" /\ ~HasColumns
    /\ Len(DataRecords) = MaxRecords
    /\ err = "KeyError"
    /\ log = <<>>

(***************************************************************************)
(* C9  Matching rule.                                                      *)
(***************************************************************************)
\* C9: the captured path is the text of one header line: it holds no newline.
C9_PathWithinOneLine ==
    \A j \in 1..Len(matches) :
        \A k \in 1..Len(matches[j][1]) : matches[j][1][k] # "\n"

(***************************************************************************)
(* C10  File handles.                                                      *)
(***************************************************************************)
\* C10: a handle is open only inside its with block, whichever way the block
\* is left: at most one handle is open at a time, the input's handle is
\* closed before an output is opened, and none is open when a script ends.
C10_HandlesScoped ==
    /\ Cardinality(handles) <= 1
    /\ "input" \in handles <=> (prog = "extract" /\ pc = "read")
    /\ "output" \in handles <=> (prog = "extract" /\ pc = "write")
    /\ "csv" \in handles <=> (prog = "inspect" /\ pc \in {"for_row", "body", "print_total"})
    /\ pc = "exit" => handles = {}

C10_Witness ==
    /\ prog = "extract" /\ pc = "exit" /\ err = "OSError"
    /\ idx = 2
    /\ handles = {}
    /\ IsFile(fs, target)
    /\ code = <<"a","U+00E9">>
    /\ fs[target].data = <<"a","xC3">>

====
